---------------------------- MODULE Spec2Model ----------------------------
(***************************************************************************)
(* Model of the python-sandbox editor page (src/unnamed/part_002):         *)
(*   - the Code Preparer (wrapCodeInMainFunction, prepareCodeForExecution),*)
(*   - the editor session (handleCodeChange, handleModeChange,             *)
(*     handleSubmit and the continuations of its fetch),                   *)
(*   - the output area of the page (the JSX of the "Output Content"),      *)
(*   - the result renderers (renderResult, renderDataFrame, renderSeries,  *)
(*     renderImage, renderUnserializable) and the visualization blocks.    *)
(*                                                                         *)
(* Source text is a sequence of symbols.  A symbol is one character        *)
(* (newline, space, the letter "x") or the six letters r-e-t-u-r-n taken   *)
(* as one symbol, which is a run of word characters like "x"; the header   *)
(* "def main():" and the word "pass" of the wrapper are symbols as well.   *)
(***************************************************************************)
EXTENDS Integers, Sequences, FiniteSets

\* ------------------------------------------------------------------ bounds
\* Longest source text the preparer is run on.
MaxCodeLen == 4
\* Number of handleSubmit invocations that may be awaiting their fetch.
MaxRequests == 2
\* Most rows of a DataFrame result, and most entries of a Series result.
MaxRows == 15
\* Most entries of a visualizations array.
MaxViz == 2

\* ----------------------------------------------------------------- symbols
NL == "\n"
SP == " "
X == "x"
RET == "return"
DEFMAIN == "def main():"
PASS == "pass"

Alphabet == {NL, SP, X, RET}

\* All source texts of at most n symbols.
CodeTexts(n) == UNION {[1..k -> Alphabet] : k \in 0..n}

\* \s of String.prototype.trim, restricted to the alphabet.
IsSpace(c) == c \in {SP, NL}

\* \w of the regular expression: a symbol made of word characters.
IsWord(c) == c \in {X, RET, PASS}

RECURSIVE TrimStart(_)
TrimStart(s) ==
  IF s = <<>> THEN <<>>
  ELSE IF IsSpace(Head(s)) THEN TrimStart(Tail(s)) ELSE s

RECURSIVE TrimEnd(_)
TrimEnd(s) ==
  IF s = <<>> THEN <<>>
  ELSE IF IsSpace(s[Len(s)]) THEN TrimEnd(SubSeq(s, 1, Len(s) - 1)) ELSE s

\* String.prototype.trim
Trim(s) == TrimEnd(TrimStart(s))

\* s.split('\n'): the pieces between the newlines, at least one piece.
RECURSIVE Split(_)
Split(s) ==
  IF \A i \in 1..Len(s) : s[i] # NL THEN <<s>>
  ELSE LET i == CHOOSE j \in 1..Len(s) :
                  s[j] = NL /\ \A k \in 1..(j - 1) : s[k] # NL
       IN  <<SubSeq(s, 1, i - 1)>> \o Split(SubSeq(s, i + 1, Len(s)))

\* lines.join('\n')
RECURSIVE Join(_)
Join(ls) ==
  IF Len(ls) = 0 THEN <<>>
  ELSE IF Len(ls) = 1 THEN ls[1]
  ELSE ls[1] \o <<NL>> \o Join(Tail(ls))

\* The template prefix `    ${line}` (four spaces).
Indent == <<SP, SP, SP, SP>>

\* /\breturn\b/.test(s): the word "return" with no word character on
\* either side.
HasReturnToken(s) ==
  \E i \in 1..Len(s) :
     /\ s[i] = RET
     /\ (i = 1 \/ ~IsWord(s[i - 1]))
     /\ (i = Len(s) \/ ~IsWord(s[i + 1]))

\* The no-op program "def main():\n    pass\n".
NoOpProgram == <<DEFMAIN, NL>> \o Indent \o <<PASS, NL>>

\* Faulty variant: the wrapper without its blank-input case.
wrapCodeInMainFunction_NoBlankCase(code) ==
  LET lines == Split(Trim(code))
  IN  <<DEFMAIN, NL>>
        \o Join([i \in 1..Len(lines) |-> Indent \o lines[i]]) \o <<NL>>

wrapCodeInMainFunction(code) ==
  LET trimmedCode == Trim(code)
  IN  IF trimmedCode = <<>> THEN NoOpProgram
      ELSE LET lines == Split(trimmedCode)
               indentedLines ==
                 Join([i \in 1..Len(lines) |-> Indent \o lines[i]])
           IN  <<DEFMAIN, NL>> \o indentedLines \o <<NL>>

\* Faulty variant: Script mode sends the trimmed text.
prepareCodeForExecution_TrimsScript(code, mode) ==
  IF mode = "script"
    THEN IF HasReturnToken(Trim(code)) THEN wrapCodeInMainFunction(code)
         ELSE Trim(code)
    ELSE wrapCodeInMainFunction(code)

\* Faulty variant: Script mode never wraps (no return detection).
prepareCodeForExecution_NoAutoWrap(code, mode) ==
  IF mode = "script" THEN code ELSE wrapCodeInMainFunction(code)

prepareCodeForExecution(code, mode) ==
  LET hasReturnStatement == HasReturnToken(Trim(code))
  IN  IF mode = "script"
        THEN IF hasReturnStatement THEN wrapCodeInMainFunction(code)
             ELSE code
        ELSE wrapCodeInMainFunction(code)

ExecutionMode == {"script", "function"}

\* The two default snippets, shortened to their shape: the script snippet
\* has several lines and no return, the function snippet ends in a line
\* with a return statement.
defaultScriptCode == <<X, NL, X>>
defaultFunctionCode == <<X, NL, RET, SP, X>>


\* --------------------------------------------------------------- responses
\* An absent optional string field (`error?: string`).
ABSENT == "<absent>"

\* apiResponse === null
NULL == [kind |-> "null"]

\* `result?: JsonValue`: absent, null, or a value.
Results == {[t |-> "absent"], [t |-> "null"], [t |-> "number"]}

\* `visualizations?: Visualization[]`: absent or an array.
Visualizations ==
  {[t |-> "absent"],
   [t |-> "array", items |-> <<>>],
   [t |-> "array", items |-> <<[type |-> "matplotlib", format |-> "png"]>>]}

\* The ApiResponse bodies the backend may send.
ApiResponses ==
  [kind : {"response"},
   stdout : {"", "out"},
   error : {ABSENT, "", "Traceback"},
   result : Results,
   visualizations : Visualizations]

\* The bodies delivered in the session specification: output only, output
\* and an error, and a body with nothing to show.
SessionResponses ==
  {b \in ApiResponses :
     /\ b.visualizations.t = "absent"
     /\ b.result.t = "absent"
     /\ <<b.stdout, b.error>> \in
          {<<"out", ABSENT>>, <<"out", "Traceback">>, <<"", ABSENT>>}}

\* JavaScript truthiness of a string field.
Truthy(str) == str # ABSENT /\ str # ""

\* apiResponse.hasOwnProperty('result') && result !== null && result !== undefined
HasResult(b) == b.result.t \notin {"absent", "null"}

\* apiResponse.visualizations && apiResponse.visualizations.length > 0
HasVisualizations(b) ==
  b.visualizations.t = "array" /\ Len(b.visualizations.items) > 0

When(c, panel) == IF c THEN <<panel>> ELSE <<>>

\* Faulty variant: an error panel replaces the other panels.
ResponsePanels_ErrorSuppresses(loading, b) ==
  IF Truthy(b.error) THEN <<"error">>
  ELSE When(HasVisualizations(b), "visualizations")
       \o When(Truthy(b.stdout), "stdout")
       \o When(HasResult(b), "result")
       \o When(~Truthy(b.stdout) /\ ~HasVisualizations(b)
                 /\ ~HasResult(b) /\ ~loading, "no_output")

\* Faulty variant: the closing notice is left out.
ResponsePanels_NoNotice(loading, b) ==
  When(Truthy(b.error), "error")
  \o When(HasVisualizations(b), "visualizations")
  \o When(Truthy(b.stdout), "stdout")
  \o When(HasResult(b), "result")

\* The panels of a received response, in the order of the JSX.
ResponsePanels(loading, b) ==
  When(Truthy(b.error), "error")
  \o When(HasVisualizations(b), "visualizations")
  \o When(Truthy(b.stdout), "stdout")
  \o When(HasResult(b), "result")
  \o When(~Truthy(b.error) /\ ~Truthy(b.stdout) /\ ~HasVisualizations(b)
            /\ ~HasResult(b) /\ ~loading, "no_output")

\* The output area below the "Supported Libraries" box.
OutputContent(loading, resp) ==
  When(loading /\ resp = NULL, "spinner")
  \o (IF resp # NULL THEN ResponsePanels(loading, resp) ELSE <<>>)
  \o When(~loading /\ resp = NULL, "placeholder")

Shows(content, panel) == \E i \in 1..Len(content) : content[i] = panel

\* ------------------------------------------------------------------- state
VARIABLES
  userCode,         \* useState: the editor text
  executionMode,    \* useState: 'script' | 'function'
  hasUserEdited,    \* useState
  apiResponse,      \* useState: NULL or an ApiResponse
  isLoading,        \* useState
  abortController,  \* useState: 0 (null) or the id of a request's controller
  req,              \* handleSubmit invocations awaiting their fetch:
                    \*   id -> "free" | "pending" | "aborted"
  scriptToSend,     \* the result of the preparer run (PrepSpec)
  isLocalDev,       \* window.location.hostname is a local-development host
  envApiUrl,        \* process.env.NEXT_PUBLIC_FLASK_API_URL ("" when unset)
  localStorage,     \* the items 'python-sandbox-code' and 'python-sandbox-mode'
  renderPlan,       \* the output area rendered by the last render run
  resultView,       \* the element renderResult returned for the result panel
  vizBlocks,        \* the image blocks of the visualizations panel
  stale,            \* history: requests issued before the latest submission
  lastEvent         \* history: the step taken last, and the path it took

editorVars == <<userCode, executionMode, hasUserEdited>>
viewVars == <<apiResponse, isLoading, abortController>>
envVars == <<isLocalDev, envApiUrl, localStorage>>
renderVars == <<renderPlan, resultView, vizBlocks>>
vars == <<userCode, executionMode, hasUserEdited, apiResponse, isLoading,
          abortController, req, scriptToSend, isLocalDev, envApiUrl,
          localStorage, renderPlan, resultView, vizBlocks, stale, lastEvent>>

ReqIds == 1..MaxRequests
NoScript == <<"<none>">>
NotRendered == <<"<none>">>
\* localStorage.getItem returns null: no such item.
NoItem == <<"<no item>">>
\* The storage of a browser in which the page has saved nothing.
NothingSaved == [code |-> NoItem, mode |-> ABSENT]
NoElement == [kind |-> "none"]
NoBlocks == <<[kind |-> "none"]>>

\* The texts typed into the editor in the session specification.
SessionCodes ==
  {<<>>, <<SP>>, <<X>>, defaultScriptCode, defaultFunctionCode}

\* useState initial values
InitialState ==
  /\ userCode = defaultFunctionCode
  /\ executionMode = "function"
  /\ hasUserEdited = FALSE
  /\ apiResponse = NULL
  /\ isLoading = FALSE
  /\ abortController = 0

Init ==
  /\ InitialState
  /\ req = [r \in ReqIds |-> "free"]
  /\ scriptToSend = NoScript
  /\ isLocalDev \in BOOLEAN
  /\ envApiUrl \in {"", "https://api.example/execute"}
  /\ localStorage = NothingSaved
  /\ renderPlan = NotRendered
  /\ resultView = NoElement
  /\ vizBlocks = NoBlocks
  /\ stale = {}
  /\ lastEvent = "none"

\* ----------------------------------------------------------------- editor
\* Faulty variant: the mode change loads the default snippet even after
\* the user has edited the code.
handleModeChange_AlwaysLoadsDefault(newMode) ==
  /\ userCode' = IF newMode = "script" THEN defaultScriptCode
                  ELSE defaultFunctionCode
  /\ executionMode' = newMode
  /\ lastEvent' = "mode_change"
  /\ UNCHANGED <<hasUserEdited, viewVars, req, scriptToSend, envVars,
                 renderVars, stale>>

handleModeChange(newMode) ==
  /\ userCode' = IF ~hasUserEdited
                   THEN (IF newMode = "script" THEN defaultScriptCode
                         ELSE defaultFunctionCode)
                   ELSE userCode
  /\ executionMode' = newMode
  /\ lastEvent' = "mode_change"
  /\ UNCHANGED <<hasUserEdited, viewVars, req, scriptToSend, envVars,
                 renderVars, stale>>

\* value is the editor's new text (undefined is modelled by the empty text:
\* `value || ''`).
handleCodeChange(value) ==
  /\ userCode' = value
  /\ hasUserEdited' =
       IF ~hasUserEdited /\ value # defaultFunctionCode
            /\ value # defaultScriptCode
         THEN TRUE ELSE hasUserEdited
  /\ lastEvent' = "code_change"
  /\ UNCHANGED <<executionMode, viewVars, req, scriptToSend, envVars,
                 renderVars, stale>>

\* ----------------------------------------------------------------- submit
\* Endpoint resolution of handleSubmit: '' means "not configured".
ApiUrl ==
  IF isLocalDev THEN "http://localhost:5000/execute" ELSE envApiUrl

\* Requests whose handleSubmit invocation has not run to its end.
Outstanding == {r \in ReqIds : req[r] # "free"}

\* Requests on the wire: issued, not aborted, not settled.
InFlight == {r \in ReqIds : req[r] = "pending"}

\* controller.abort(): the fetch of the controller's request is rejected;
\* its continuation (catch, finally) runs later, in a step of its own.
Abort(r) ==
  [req EXCEPT ![r] = IF @ = "pending" THEN "aborted" ELSE @]

\* if (isLoading && abortController) { abort; clear; return }
SubmitCancel ==
  /\ isLoading /\ abortController # 0
  /\ req' = Abort(abortController)
  /\ abortController' = 0
  /\ isLoading' = FALSE
  /\ stale' = Outstanding
  /\ lastEvent' = "cancel"
  /\ UNCHANGED <<editorVars, apiResponse, scriptToSend, envVars, renderVars>>

\* Faulty variant: a blank submission leaves the response on display.
SubmitEmpty_KeepsResponse ==
  /\ ~(isLoading /\ abortController # 0)
  /\ Trim(userCode) = <<>>
  /\ stale' = Outstanding
  /\ lastEvent' = "empty"
  /\ UNCHANGED <<editorVars, viewVars, req, scriptToSend, envVars, renderVars>>

\* if (!userCode.trim()) { setApiResponse(null); return }
SubmitEmpty ==
  /\ ~(isLoading /\ abortController # 0)
  /\ Trim(userCode) = <<>>
  /\ apiResponse' = NULL
  /\ stale' = Outstanding
  /\ lastEvent' = "empty"
  /\ UNCHANGED <<editorVars, isLoading, abortController, req, scriptToSend,
                 envVars, renderVars>>

\* setIsLoading(true); setApiResponse(null); no apiUrl: setIsLoading(false)
SubmitNotConfigured ==
  /\ ~(isLoading /\ abortController # 0)
  /\ Trim(userCode) # <<>>
  /\ ApiUrl = ""
  /\ apiResponse' = NULL
  /\ isLoading' = FALSE
  /\ stale' = Outstanding
  /\ lastEvent' = "not_configured"
  /\ UNCHANGED <<editorVars, abortController, req, scriptToSend, envVars,
                 renderVars>>

\* Faulty variant: a submission does not clear the response.
SubmitRequest_KeepsResponse ==
  /\ ~(isLoading /\ abortController # 0)
  /\ Trim(userCode) # <<>>
  /\ ApiUrl # ""
  /\ \E r \in ReqIds :
       /\ req[r] = "free"
       /\ \A q \in ReqIds : q < r => req[q] # "free"
       /\ req' = [req EXCEPT ![r] = "pending"]
       /\ abortController' = r
  /\ isLoading' = TRUE
  /\ stale' = Outstanding
  /\ lastEvent' = "requested"
  /\ UNCHANGED <<editorVars, apiResponse, scriptToSend, envVars, renderVars>>

\* setIsLoading(true); setApiResponse(null); new controller; fetch.  The
\* body { script: prepareCodeForExecution(userCode, executionMode) } leaves
\* with the request: no state of the page keeps it.
SubmitRequest ==
  /\ ~(isLoading /\ abortController # 0)
  /\ Trim(userCode) # <<>>
  /\ ApiUrl # ""
  /\ \E r \in ReqIds :
       /\ req[r] = "free"
       /\ \A q \in ReqIds : q < r => req[q] # "free"
       /\ req' = [req EXCEPT ![r] = "pending"]
       /\ abortController' = r
  /\ isLoading' = TRUE
  /\ apiResponse' = NULL
  /\ stale' = Outstanding
  /\ lastEvent' = "requested"
  /\ UNCHANGED <<editorVars, scriptToSend, envVars, renderVars>>

handleSubmit ==
  \/ SubmitCancel
  \/ SubmitEmpty
  \/ SubmitNotConfigured
  \/ SubmitRequest

\* ---------------------------------------------------- fetch continuations
\* finally { setIsLoading(false); setAbortController(null) }
Finally(r) ==
  /\ isLoading' = FALSE
  /\ abortController' = 0
  /\ req' = [req EXCEPT ![r] = "free"]
  /\ stale' = stale \ {r}

\* fetch and response.json() resolve: setApiResponse(data), also when
\* !response.ok (which only logs and returns).
ResponseArrives(r, ok, data) ==
  /\ req[r] = "pending"
  /\ apiResponse' = data
  /\ Finally(r)
  /\ lastEvent' = IF ok THEN "response" ELSE "http_error"
  /\ UNCHANGED <<editorVars, scriptToSend, envVars, renderVars>>

\* Faulty variant: the failure path without the finally block.
RequestFails_NoFinally(r) ==
  /\ req[r] = "pending"
  /\ req' = [req EXCEPT ![r] = "free"]
  /\ stale' = stale \ {r}
  /\ lastEvent' = "network_error"
  /\ UNCHANGED <<editorVars, viewVars, scriptToSend, envVars, renderVars>>

\* Faulty variant: a failed request is sent again on its own.
RequestFails_Retries(r) ==
  /\ req[r] = "pending"
  /\ \E q \in ReqIds :
       /\ q # r /\ req[q] = "free"
       /\ req' = [req EXCEPT ![r] = "free", ![q] = "pending"]
       /\ abortController' = q
  /\ isLoading' = TRUE
  /\ stale' = stale \ {r}
  /\ lastEvent' = "network_error"
  /\ UNCHANGED <<editorVars, apiResponse, scriptToSend, envVars, renderVars>>

\* fetch rejects (connection failure) or response.json() rejects (malformed
\* body): the catch block logs to the console.
RequestFails(r) ==
  /\ req[r] = "pending"
  /\ Finally(r)
  /\ lastEvent' = "network_error"
  /\ UNCHANGED <<editorVars, apiResponse, scriptToSend, envVars, renderVars>>

\* The aborted fetch rejects with an AbortError: the catch block logs
\* "Execution cancelled by user." to the console.
AbortErrorCaught(r) ==
  /\ req[r] = "aborted"
  /\ Finally(r)
  /\ lastEvent' = "aborted"
  /\ UNCHANGED <<editorVars, apiResponse, scriptToSend, envVars, renderVars>>

Settle(r) ==
  \/ \E ok \in BOOLEAN, data \in SessionResponses : ResponseArrives(r, ok, data)
  \/ RequestFails(r)
  \/ AbortErrorCaught(r)

Next ==
  \/ \E newMode \in ExecutionMode : handleModeChange(newMode)
  \/ \E value \in SessionCodes : handleCodeChange(value)
  \/ handleSubmit
  \/ \E r \in ReqIds : Settle(r)

Spec == Init /\ [][Next]_vars

\* The network answers or fails a request, and a rejected fetch runs its
\* continuation: while some invocation awaits its fetch, one of them is
\* eventually resumed.
FairSpec == Spec /\ WF_vars(\E r \in ReqIds : Settle(r))

\* ------------------------------------------- storage, keyboard, remount
\* localStorage.setItem of the code and of the mode.
saveCode ==
  /\ localStorage' = [code |-> userCode, mode |-> executionMode]
  /\ lastEvent' = "saved"
  /\ UNCHANGED <<editorVars, viewVars, req, scriptToSend, isLocalDev,
                 envApiUrl, renderVars, stale>>

\* A key that no branch of handleKeyDown takes: nothing is set.
KeyIgnored ==
  /\ lastEvent' = "key_ignored"
  /\ UNCHANGED <<editorVars, viewVars, req, scriptToSend, envVars,
                 renderVars, stale>>

Keys == {"Ctrl+Enter", "Ctrl+S"}

\* Faulty variant: Ctrl+Enter submits the form whatever isLoading is.
handleKeyDown_NoLoadingGuard(key) ==
  \/ key = "Ctrl+Enter" /\ handleSubmit
  \/ key = "Ctrl+S" /\ saveCode

\* The keydown listener of the document.  Ctrl+Enter with isLoading false
\* submits the form (form.requestSubmit() runs handleSubmit); with
\* isLoading true it passes every branch.
handleKeyDown(key) ==
  \/ key = "Ctrl+Enter" /\ ~isLoading /\ handleSubmit
  \/ key = "Ctrl+Enter" /\ isLoading /\ KeyIgnored
  \/ key = "Ctrl+S" /\ saveCode

\* if (savedCode): the item exists and is not the empty string.
HasSavedCode(store) == store.code # NoItem /\ store.code # <<>>

\* The state of the page once the load effect has run on the useState
\* initial values.
LoadedCode(store) ==
  IF HasSavedCode(store) THEN store.code ELSE defaultFunctionCode

LoadedEdited(store) == HasSavedCode(store)

LoadedMode(store) ==
  IF store.mode \in ExecutionMode THEN store.mode ELSE "function"

\* The page is loaded anew (reload, or leaving and coming back): the state
\* is constructed again and the load effect runs.  Requests of the page
\* that was left no longer reach any state.
Mount ==
  /\ userCode' = LoadedCode(localStorage)
  /\ hasUserEdited' = LoadedEdited(localStorage)
  /\ executionMode' = LoadedMode(localStorage)
  /\ apiResponse' = NULL
  /\ isLoading' = FALSE
  /\ abortController' = 0
  /\ req' = [r \in ReqIds |-> "free"]
  /\ stale' = {}
  /\ lastEvent' = "mount"
  /\ UNCHANGED <<scriptToSend, envVars, renderVars>>

\* What the page may have left in localStorage on earlier visits.
StoredStates ==
  {NothingSaved}
  \cup {[code |-> c, mode |-> m] : c \in SessionCodes, m \in ExecutionMode}

PageInit ==
  /\ localStorage \in StoredStates
  /\ userCode = LoadedCode(localStorage)
  /\ hasUserEdited = LoadedEdited(localStorage)
  /\ executionMode = LoadedMode(localStorage)
  /\ apiResponse = NULL
  /\ isLoading = FALSE
  /\ abortController = 0
  /\ req = [r \in ReqIds |-> "free"]
  /\ scriptToSend = NoScript
  /\ isLocalDev \in BOOLEAN
  /\ envApiUrl \in {"", "https://api.example/execute"}
  /\ renderPlan = NotRendered
  /\ resultView = NoElement
  /\ vizBlocks = NoBlocks
  /\ stale = {}
  /\ lastEvent = "mount"

PageNext ==
  \/ Next
  \/ \E key \in Keys : handleKeyDown(key)
  \/ Mount

\* The page with its storage and its keyboard, over any number of mounts.
PageSpec == PageInit /\ [][PageNext]_vars

\* ------------------------------------------------- the preparer on its own
PrepInit ==
  /\ userCode \in CodeTexts(MaxCodeLen)
  /\ executionMode \in ExecutionMode
  /\ scriptToSend = NoScript
  /\ hasUserEdited = TRUE
  /\ apiResponse = NULL
  /\ isLoading = FALSE
  /\ abortController = 0
  /\ req = [r \in ReqIds |-> "free"]
  /\ isLocalDev = TRUE
  /\ envApiUrl = ""
  /\ localStorage = NothingSaved
  /\ renderPlan = NotRendered
  /\ resultView = NoElement
  /\ vizBlocks = NoBlocks
  /\ stale = {}
  /\ lastEvent = "none"

Prepare ==
  /\ scriptToSend = NoScript
  /\ scriptToSend' = prepareCodeForExecution(userCode, executionMode)
  /\ UNCHANGED <<editorVars, viewVars, req, envVars, renderVars, stale,
                 lastEvent>>

PrepNext == Prepare

PrepSpec == PrepInit /\ [][PrepNext]_vars

\* --------------------------------------------- the output area on its own
RenderInit ==
  /\ apiResponse \in ApiResponses
  /\ executionMode \in ExecutionMode
  /\ isLoading = FALSE
  /\ renderPlan = NotRendered
  /\ resultView = NoElement
  /\ vizBlocks = NoBlocks
  /\ userCode = defaultFunctionCode
  /\ hasUserEdited = FALSE
  /\ abortController = 0
  /\ req = [r \in ReqIds |-> "free"]
  /\ scriptToSend = NoScript
  /\ isLocalDev = TRUE
  /\ envApiUrl = ""
  /\ localStorage = NothingSaved
  /\ stale = {}
  /\ lastEvent = "none"

Render ==
  /\ renderPlan = NotRendered
  /\ renderPlan' = OutputContent(isLoading, apiResponse)
  /\ UNCHANGED <<editorVars, viewVars, req, scriptToSend, envVars, stale,
                 lastEvent, resultView, vizBlocks>>

RenderNext == Render

RenderSpec == RenderInit /\ [][RenderNext]_vars

\* ------------------------------------------------------------ result values
\* The members of the tagged result interfaces, `_type` aside.
DataFrameKeys == {"data", "columns", "index", "shape", "dtypes"}
SeriesKeys == {"data", "name", "dtype", "index"}
ImageKeys == {"format", "data", "size", "mode"}
UnserializableKeys == {"value", "type"}

\* A JSON object: its `_type` member (ABSENT when it has none), the names of
\* its other members, and the content of its `data` member (the rows of a
\* DataFrame, the members of a Series' data object, in the order of the
\* response body; <<>> when there is none).
Obj(tag, ks, d) == [t |-> "object", _type |-> tag, keys |-> ks, data |-> d]

\* n rows, each row known by its position in the body.
Rows(n) == [i \in 1..n |-> [row |-> i]]

\* Member names of a Series' data object.  A name is either the canonical
\* text of a non-negative integer ("0", "7") or any other text; n tells
\* which integer, or which label.
IndexKey(isInteger, n) == [numeric |-> isInteger, n |-> n]

\* A Series with a text index: "label 1", "label 2", ...
Labelled(n) == [i \in 1..n |-> IndexKey(FALSE, i)]
\* A Series with the default index 0, 1, ..., n - 1.
Counting(n) == [i \in 1..n |-> IndexKey(TRUE, i - 1)]
\* A Series with an integer index that is not in ascending order (as after
\* sort_values): n - 1, ..., 1, 0.
Descending(n) == [i \in 1..n |-> IndexKey(TRUE, n - i)]

SeriesData ==
  UNION {{Labelled(n), Counting(n), Descending(n)} : n \in 0..MaxRows}

\* A set of member names with at most one name missing.
AllButOne(ks) == {ks} \cup {ks \ {k} : k \in ks}

\* DataFrame results: every member present and up to MaxRows rows, or one
\* member missing (no rows without `data`, at most one row otherwise).  The
\* `columns` member, when present, names at least one column.
DataFrameResults ==
  {Obj("dataframe", DataFrameKeys, Rows(n)) : n \in 0..MaxRows}
  \cup {Obj("dataframe", DataFrameKeys \ {k}, Rows(n)) :
          k \in DataFrameKeys \ {"data"}, n \in 0..1}
  \cup {Obj("dataframe", DataFrameKeys \ {"data"}, <<>>)}

SeriesResults ==
  {Obj("series", SeriesKeys, d) : d \in SeriesData}
  \cup {Obj("series", SeriesKeys \ {k}, Labelled(1)) :
          k \in SeriesKeys \ {"data"}}
  \cup {Obj("series", SeriesKeys \ {"data"}, <<>>)}

ImageResults == {Obj("image", ks, <<>>) : ks \in AllButOne(ImageKeys)}

UnserializableResults ==
  {Obj("unserializable", ks, <<>>) : ks \in AllButOne(UnserializableKeys)}

\* Objects with a `_type` the page does not know, and without `_type`.
OtherObjects ==
  {Obj("mystery", {"value"}, <<>>), Obj("mystery", DataFrameKeys, Rows(1)),
   Obj(ABSENT, {"data_shape", "columns"}, <<>>), Obj(ABSENT, {}, <<>>)}

\* JSON values that are no object with members.
PlainResults ==
  {[t |-> "number"], [t |-> "string"], [t |-> "boolean"], [t |-> "array"]}

\* The values of `result` for which the result panel is rendered.
ResultValues ==
  PlainResults \cup OtherObjects \cup DataFrameResults \cup SeriesResults
  \cup ImageResults \cup UnserializableResults

\* The payload has every member its interface declares.
WellFormed(result) ==
  /\ result.t = "object"
  /\ \/ result._type = "dataframe" /\ result.keys = DataFrameKeys
     \/ result._type = "series" /\ result.keys = SeriesKeys
     \/ result._type = "image" /\ result.keys = ImageKeys
     \/ result._type = "unserializable" /\ result.keys = UnserializableKeys

RecognizedTypes == {"dataframe", "series", "image", "unserializable"}

\* -------------------------------------------------------- result renderers
maxRows == 10
maxItems == 10

Min(a, b) == IF a <= b THEN a ELSE b

\* A TypeError raised while rendering (a member of undefined is read): no
\* error boundary catches it, the render of the page fails.
Throws == [kind |-> "throws"]

\* <pre>{JSON.stringify(result, null, 2)}</pre>, or String(result) for a
\* value that is no object: the text of the whole value.
JsonRendering(result) == [kind |-> "json", value |-> result]

\* array.slice(0, n)
Slice(seq, n) == SubSeq(seq, 1, Min(Len(seq), n))

\* The summary line "... and k more rows" ("... more items"), if any.
Summary(hasMore, k) == IF hasMore THEN <<k>> ELSE <<>>

\* Faulty variant: the summary row appears at the limit already.
renderDataFrame_SummaryAtLimit(df) ==
  IF \/ ~({"data", "shape", "columns", "dtypes"} \subseteq df.keys)
     \/ "index" \notin df.keys /\ Len(df.data) > 0
    THEN Throws
    ELSE [kind |-> "dataframe",
          rows |-> Slice(df.data, maxRows),
          summary |-> Summary(Len(df.data) >= maxRows,
                              Len(df.data) - maxRows)]

\* df.data.slice, df.shape[0], df.columns.map and df.dtypes[col] read a
\* member of undefined when their member is missing; df.index[rowIdx] does
\* so when there is a row to show.
renderDataFrame(df) ==
  IF \/ ~({"data", "shape", "columns", "dtypes"} \subseteq df.keys)
     \/ "index" \notin df.keys /\ Len(df.data) > 0
    THEN Throws
    ELSE LET displayData == Slice(df.data, maxRows)
             hasMoreRows == Len(df.data) > maxRows
         IN  [kind |-> "dataframe",
              rows |-> displayData,
              summary |-> Summary(hasMoreRows, Len(df.data) - maxRows)]

RECURSIVE Ascending(_)
Ascending(S) ==
  IF S = {} THEN <<>>
  ELSE LET m == CHOOSE x \in S : \A y \in S : x <= y
       IN  <<m>> \o Ascending(S \ {m})

IsNumeric(key) == key.numeric

IsLabel(key) == ~key.numeric

\* Object.entries(data) of the parsed body: the integer-like member names
\* first, in ascending numeric order, then the other names in the order of
\* the body (the property order of an ordinary object).
ObjectEntries(members) ==
  LET ints == Ascending({members[i].n :
                           i \in {j \in 1..Len(members) : IsNumeric(members[j])}})
  IN  [i \in 1..Len(ints) |-> IndexKey(TRUE, ints[i])]
        \o SelectSeq(members, IsLabel)

\* Object.entries(undefined) raises a TypeError; a missing name, dtype or
\* index is rendered as nothing.
renderSeries(series) ==
  IF "data" \notin series.keys THEN Throws
  ELSE LET entries == Slice(ObjectEntries(series.data), maxItems)
           hasMoreItems == Len(series.data) > maxItems
       IN  [kind |-> "series",
            entries |-> entries,
            summary |-> Summary(hasMoreItems, Len(series.data) - maxItems)]

\* image.size[0] reads a member of undefined when `size` is missing.
renderImage(image) ==
  IF "size" \notin image.keys THEN Throws ELSE [kind |-> "image"]

renderUnserializable(obj) == [kind |-> "unserializable"]

\* Faulty variant: an unknown `_type` is an error.
renderResult_UnknownTypeThrows(result) ==
  IF result.t = "object" /\ result._type # ABSENT
    THEN CASE result._type = "dataframe" -> renderDataFrame(result)
           [] result._type = "series" -> renderSeries(result)
           [] result._type = "image" -> renderImage(result)
           [] result._type = "unserializable" -> renderUnserializable(result)
           [] OTHER -> Throws
    ELSE JsonRendering(result)

renderResult(result) ==
  IF result.t = "object" /\ result._type # ABSENT
    THEN CASE result._type = "dataframe" -> renderDataFrame(result)
           [] result._type = "series" -> renderSeries(result)
           [] result._type = "image" -> renderImage(result)
           [] result._type = "unserializable" -> renderUnserializable(result)
           [] OTHER -> JsonRendering(result)
    ELSE JsonRendering(result)

\* ------------------------------------------- the result panel on its own
ResultInit ==
  /\ apiResponse \in
       {[kind |-> "response", stdout |-> "", error |-> ABSENT,
         result |-> r, visualizations |-> [t |-> "absent"]] :
          r \in ResultValues}
  /\ executionMode \in ExecutionMode
  /\ isLoading = FALSE
  /\ renderPlan = NotRendered
  /\ resultView = NoElement
  /\ vizBlocks = NoBlocks
  /\ userCode = defaultFunctionCode
  /\ hasUserEdited = FALSE
  /\ abortController = 0
  /\ req = [r \in ReqIds |-> "free"]
  /\ scriptToSend = NoScript
  /\ isLocalDev = TRUE
  /\ envApiUrl = ""
  /\ localStorage = NothingSaved
  /\ stale = {}
  /\ lastEvent = "none"

RenderResultPanel ==
  /\ resultView = NoElement
  /\ HasResult(apiResponse)
  /\ resultView' = renderResult(apiResponse.result)
  /\ UNCHANGED <<editorVars, viewVars, req, scriptToSend, envVars, stale,
                 lastEvent, renderPlan, vizBlocks>>

ResultNext == RenderResultPanel

ResultSpec == ResultInit /\ [][ResultNext]_vars

\* ------------------------------------ the visualizations panel on its own
\* Entries of `visualizations`; figure_number is <<>> when the entry has
\* none.
VizEntries ==
  [type : {"matplotlib", "plotly"},
   format : {"png"},
   figure_number : {<<>>, <<0>>, <<1>>, <<2>>}]

VizArrays == UNION {[1..k -> VizEntries] : k \in 0..MaxViz}

\* viz.figure_number || index + 1
FigureNumber(viz, index) ==
  IF viz.figure_number # <<>> /\ viz.figure_number[1] # 0
    THEN viz.figure_number[1]
    ELSE index + 1

\* One block of the map over the array: the label names the type and, for
\* matplotlib, the figure number; the format; the alt text of the image.
VizBlock(viz, index) ==
  [type |-> viz.type,
   figure |-> IF viz.type = "matplotlib"
                THEN <<FigureNumber(viz, index)>> ELSE <<>>,
   format |-> viz.format,
   alt |-> index + 1]

\* apiResponse.visualizations.map((viz, index) => ...), index from 0.
VisualizationBlocks(items) ==
  [i \in 1..Len(items) |-> VizBlock(items[i], i - 1)]

VizInit ==
  /\ apiResponse \in
       {[kind |-> "response", stdout |-> "", error |-> ABSENT,
         result |-> [t |-> "absent"],
         visualizations |-> [t |-> "array", items |-> a]] :
          a \in VizArrays}
  /\ executionMode = "function"
  /\ isLoading = FALSE
  /\ renderPlan = NotRendered
  /\ resultView = NoElement
  /\ vizBlocks = NoBlocks
  /\ userCode = defaultFunctionCode
  /\ hasUserEdited = FALSE
  /\ abortController = 0
  /\ req = [r \in ReqIds |-> "free"]
  /\ scriptToSend = NoScript
  /\ isLocalDev = TRUE
  /\ envApiUrl = ""
  /\ localStorage = NothingSaved
  /\ stale = {}
  /\ lastEvent = "none"

RenderVisualizations ==
  /\ vizBlocks = NoBlocks
  /\ HasVisualizations(apiResponse)
  /\ vizBlocks' = VisualizationBlocks(apiResponse.visualizations.items)
  /\ UNCHANGED <<editorVars, viewVars, req, scriptToSend, envVars, stale,
                 lastEvent, renderPlan, resultView>>

VizNext == RenderVisualizations

VizSpec == VizInit /\ [][VizNext]_vars

\* ================================================================== claims
\* The output area of the current state.
View == OutputContent(isLoading, apiResponse)

\* isLoading false and no request handle.
Idle == ~isLoading /\ abortController = 0

\* The paths of handleSubmit.
SubmitEvents == {"cancel", "empty", "not_configured", "requested"}

\* C1: a submission made while a request is in flight cancels that request,
\* and the step in which a request issued before a later submission runs its
\* continuation (response, rejection, finally) leaves apiResponse, isLoading
\* and abortController as they are.
C1_LateDeliveryKeepsLaterState ==
  [][\A r \in ReqIds :
       /\ (req[r] = "pending" /\ r \notin stale /\ r \in stale')
            => req'[r] = "aborted"
       /\ (r \in stale /\ req[r] # "free" /\ req'[r] = "free")
            => UNCHANGED viewVars]_vars

\* C2: at most one request is in flight in every reachable state.
C2_AtMostOneInFlight == Cardinality(InFlight) <= 1

\* The output area that a transport failure of the running request leaves
\* (RequestFails: isLoading false, apiResponse as it is).
ViewAfterNetworkError == OutputContent(FALSE, apiResponse)

\* C3: the step that cancels the in-flight request ends with isLoading false
\* and an output area that shows a cancelled status, which is not what a
\* transport failure of that request would have shown.
C3_CancelShowsDistinctStatus ==
  [][(\E r \in ReqIds : req[r] = "pending" /\ req'[r] = "aborted")
       => /\ ~isLoading'
          /\ OutputContent(isLoading', apiResponse') # ViewAfterNetworkError]_vars

\* What a submission needs, beyond text in the editor, to issue a request.
EndpointResolved == ApiUrl # ""

\* C4 as stated: after every submission the session reaches an idle state,
\* and from the idle state a submission has left, a new submission issues a
\* new request.
C4_IdleAndNextSubmissionIssues ==
  /\ (lastEvent \in SubmitEvents) ~> Idle
  /\ []((lastEvent \in SubmitEvents /\ Idle) => EndpointResolved)

\* A step of handleSubmit that issues a request.
IssuesRequest ==
  \E r \in ReqIds :
     /\ req[r] = "free" /\ req'[r] = "pending"
     /\ abortController' = r /\ isLoading'

\* C4 as amended: after every submission the session reaches an idle state,
\* and a submission made from an idle state is never taken as a cancel; it
\* issues a new request whenever the code is not blank and the endpoint is
\* resolved.
C4_IdleAndNextSubmissionRuns ==
  /\ (lastEvent \in SubmitEvents) ~> Idle
  /\ [][(Idle /\ lastEvent' \in SubmitEvents)
          => /\ lastEvent' # "cancel"
             /\ (Trim(userCode) # <<>> /\ EndpointResolved) => IssuesRequest]_vars

\* A request failed in transport and the session is idle again.
C4_Witness ==
  lastEvent = "network_error" /\ Idle /\ Outstanding = {}

\* The output area before any submission: no response, not loading.
IdleView == OutputContent(FALSE, NULL)

\* The output area a transport failure of a request leaves when nothing
\* else has run since the request was issued (the submission cleared the
\* response, the finally block clears isLoading).
TransportFailureView == OutputContent(FALSE, NULL)

\* The fixed endpoint of a local-development host.
LocalEndpoint == "http://localhost:5000/execute"

\* C18: a submission that finds no endpoint (a host that is not a
\* local-development host, no configured URL) issues no request, ends with
\* isLoading false and leaves an output area that is neither the one of the
\* idle state nor the one of a network error; a local-development host
\* resolves to the fixed local endpoint whatever is configured.
C18_MissingEndpointIsReported ==
  [][/\ lastEvent' = "not_configured"
          => /\ ~isLocalDev /\ envApiUrl = ""
             /\ req' = req
             /\ ~isLoading'
             /\ OutputContent(isLoading', apiResponse') # IdleView
             /\ OutputContent(isLoading', apiResponse') # TransportFailureView
     /\ isLocalDev => ApiUrl = LocalEndpoint]_vars

\* C19: when the fetch or the parsing of the body fails, the output area
\* shows a network-error panel: it is not back at what it showed before
\* any submission.
C19_NetworkErrorIsShown ==
  lastEvent = "network_error"
    => /\ Shows(View, "network_error")
       /\ View # IdleView

\* The response held now came with a non-2xx status, or came with a 2xx
\* status and an error text.
ExecutionDidNotSucceed ==
  \/ lastEvent = "http_error"
  \/ lastEvent = "response" /\ Truthy(apiResponse.error)

\* C20: a non-2xx response, with or without an error field in its body,
\* and a 2xx response with an error text both show the error panel, which
\* a transport failure does not show.
C20_FailedExecutionShowsErrorPanel ==
  ExecutionDidNotSucceed
    => /\ Shows(View, "error")
       /\ View # TransportFailureView

\* ------------------------------------------------------ preparer claims
\* The preparer has run on userCode in executionMode.
Prepared == scriptToSend # NoScript

\* The lines of a text: the pieces between its newlines, a newline at the
\* very end terminating the last line instead of opening another.
TextLines(s) ==
  IF s # <<>> /\ s[Len(s)] = NL THEN Split(SubSeq(s, 1, Len(s) - 1))
  ELSE Split(s)

\* C5: in Script mode a non-empty text without a return token is sent
\* unchanged.
C5_ScriptWithoutReturnUnchanged ==
  (Prepared /\ executionMode = "script" /\ userCode # <<>>
     /\ ~HasReturnToken(userCode))
    => scriptToSend = userCode

\* Script mode kept a leading space and a trailing newline.
C5_Witness ==
  /\ Prepared /\ executionMode = "script"
  /\ userCode = <<SP, X, NL>> /\ scriptToSend = userCode

\* C6: in Script mode a text with a return token is prepared exactly as
\* Function mode prepares it.
C6_ScriptWithReturnAsFunction ==
  (Prepared /\ executionMode = "script" /\ HasReturnToken(userCode))
    => scriptToSend = prepareCodeForExecution(userCode, "function")

\* Script mode wrapped a text holding a return statement.
C6_Witness ==
  /\ Prepared /\ executionMode = "script"
  /\ userCode = <<X, NL, RET>>
  /\ scriptToSend = <<DEFMAIN, NL>> \o Indent \o <<X, NL>> \o Indent \o <<RET, NL>>

\* C7: in Function mode the output of a text that is not blank has one line
\* more than the text, and line k + 1 of the output is line k of the text
\* behind four spaces (whitespace at the end of a line set aside).
C7_FunctionModeIndentsEveryLine ==
  (Prepared /\ executionMode = "function" /\ Trim(userCode) # <<>>)
    => /\ Len(TextLines(scriptToSend)) = Len(TextLines(userCode)) + 1
       /\ \A k \in 1..Len(TextLines(userCode)) :
            /\ k + 1 <= Len(TextLines(scriptToSend))
            /\ TrimEnd(TextLines(scriptToSend)[k + 1])
                 = TrimEnd(Indent \o TextLines(userCode)[k])

\* Wrapping is applied: Function mode, or Script mode with a return token.
WrappingApplied ==
  executionMode = "function" \/ HasReturnToken(userCode)

\* C8: when a text that is not blank is wrapped, its line k is line k + 1 of
\* the script (whitespace around a line set aside) and the script has no
\* line more or less after it.
C8_WrappedLineOffsetIsOne ==
  (Prepared /\ WrappingApplied /\ Trim(userCode) # <<>>)
    => /\ Len(TextLines(scriptToSend)) = Len(TextLines(userCode)) + 1
       /\ \A k \in 1..Len(TextLines(userCode)) :
            /\ k + 1 <= Len(TextLines(scriptToSend))
            /\ Trim(TextLines(scriptToSend)[k + 1])
                 = Trim(TextLines(userCode)[k])

Rendered == renderPlan # NotRendered

\* C10: a response with an error text shows the error panel, and with it
\* the stdout panel when stdout is not empty and the result panel when
\* there is a result.
C10_ErrorKeepsStdoutAndResult ==
  (Rendered /\ Truthy(apiResponse.error))
    => /\ Shows(renderPlan, "error")
       /\ apiResponse.stdout # "" => Shows(renderPlan, "stdout")
       /\ HasResult(apiResponse) => Shows(renderPlan, "result")

\* A response with an error, output and a result shows all three.
C10_Witness ==
  /\ Rendered /\ Truthy(apiResponse.error) /\ apiResponse.stdout # ""
  /\ HasResult(apiResponse)
  /\ renderPlan = <<"error", "stdout", "result">>

\* Something other than stdout is there to show for the response.
HasOtherPanel(b) ==
  Truthy(b.error) \/ HasVisualizations(b) \/ HasResult(b)

\* C11: a response whose stdout is empty and which has another panel to
\* show still gets a stdout panel (holding the "No standard output."
\* indicator).
C11_EmptyStdoutKeepsStdoutPanel ==
  (Rendered /\ apiResponse.stdout = "" /\ HasOtherPanel(apiResponse))
    => Shows(renderPlan, "stdout")

\* How often a panel occurs in the output area.
Count(content, panel) ==
  Cardinality({i \in 1..Len(content) : content[i] = panel})

\* Nothing of the response is there to show: no error, empty stdout, a
\* result that is null or absent, visualizations empty or absent.
NothingToShow(b) ==
  /\ ~Truthy(b.error) /\ b.stdout = ""
  /\ ~HasResult(b) /\ ~HasVisualizations(b)

\* C16: a received response with nothing to show gives exactly the one
\* "executed with no output" notice, and no received response leaves the
\* output area empty.
C16_NoticeWhenNothingToShow ==
  Rendered
    => /\ NothingToShow(apiResponse) => renderPlan = <<"no_output">>
       /\ renderPlan # <<>>
       /\ Count(renderPlan, "no_output") <= 1

\* A body with an empty error text, a null result and an empty
\* visualizations array shows the notice alone.
C16_Witness ==
  /\ Rendered /\ renderPlan = <<"no_output">>
  /\ apiResponse.error = "" /\ apiResponse.result.t = "null"
  /\ apiResponse.visualizations = [t |-> "array", items |-> <<>>]

\* ------------------------------------------------- result panel claims
\* renderResult has run on the result of the response.
ResultRendered == resultView # NoElement

TheResult == apiResponse.result

\* The result is a DataFrame (Series) with every member of its interface.
IsDataFrame == WellFormed(TheResult) /\ TheResult._type = "dataframe"

IsSeries == WellFormed(TheResult) /\ TheResult._type = "series"

\* The element shows the first min(n, 10) of the n items in their order.
ShowsFirstTen(shown, items) ==
  /\ Len(shown) = Min(Len(items), 10)
  /\ \A i \in 1..Len(shown) : i <= Len(items) /\ shown[i] = items[i]

\* The element has one summary of n - 10 more exactly when n > 10.
SummarisesRest(summary, n) ==
  IF n > 10 THEN summary = <<n - 10>> ELSE summary = <<>>

\* C12: a DataFrame result with n data rows is shown as a table of exactly
\* min(n, 10) data rows, followed by one summary row "n - 10 more rows"
\* when n > 10 and by no summary row when n <= 10.
C12_DataFrameRowsCappedAtTen ==
  (ResultRendered /\ IsDataFrame)
    => /\ resultView.kind = "dataframe"
       /\ ShowsFirstTen(resultView.rows, TheResult.data)
       /\ SummarisesRest(resultView.summary, Len(TheResult.data))

\* 15 rows give 10 rows and "5 more rows".
C12_Witness ==
  /\ ResultRendered /\ IsDataFrame /\ Len(TheResult.data) = 15
  /\ Len(resultView.rows) = 10 /\ resultView.summary = <<5>>

\* C13: a Series result with n entries is shown as its first min(n, 10)
\* index-to-value pairs in the order of the series, with a summary of
\* n - 10 more items exactly when n > 10.
C13_SeriesEntriesInOrder ==
  (ResultRendered /\ IsSeries)
    => /\ resultView.kind = "series"
       /\ ShowsFirstTen(resultView.entries, TheResult.data)
       /\ SummarisesRest(resultView.summary, Len(TheResult.data))

\* The result is no object with one of the four known `_type` tags.
TakesGenericBranch ==
  \/ TheResult.t # "object"
  \/ TheResult._type \notin RecognizedTypes

\* C14: a result object whose `_type` is none of dataframe, series, image,
\* unserializable, and a result without `_type`, is shown by the generic
\* JSON rendering of the whole value, and rendering it raises no error.
C14_UnknownTypeRendersAsJson ==
  (ResultRendered /\ TakesGenericBranch)
    => /\ resultView # Throws
       /\ resultView = JsonRendering(TheResult)

\* An object tagged "mystery" that has the members of a DataFrame is shown
\* as JSON.
C14_Witness ==
  /\ ResultRendered
  /\ TheResult = Obj("mystery", DataFrameKeys, Rows(1))
  /\ resultView = [kind |-> "json", value |-> TheResult]

\* The result has a known `_type` tag and lacks a member of its interface.
IsMalformed ==
  /\ TheResult.t = "object"
  /\ TheResult._type \in RecognizedTypes
  /\ ~WellFormed(TheResult)

\* C15: a result with a known `_type` tag and a malformed payload is shown
\* by the generic JSON rendering, and rendering it raises no error.
C15_MalformedPayloadRendersAsJson ==
  (ResultRendered /\ IsMalformed)
    => /\ resultView # Throws
       /\ resultView = JsonRendering(TheResult)

\* ------------------------------------------- visualizations panel claims
VisualizationsRendered == vizBlocks # NoBlocks

TheVisualizations == apiResponse.visualizations.items

\* The figure index an entry is to be labelled with: its figure_number
\* when it has one, its 1-based position otherwise.
FigureIndex(viz, position) ==
  IF viz.figure_number # <<>> THEN viz.figure_number[1] ELSE position

\* The numbers a block shows: the figure number of its label, if it has
\* one, and the number of its image's alt text.
ShownIndexes(block) ==
  {block.figure[k] : k \in 1..Len(block.figure)} \cup {block.alt}

\* C17: every entry of a non-empty visualizations array is shown, in the
\* order of the array, as one image block labelled with the entry's type
\* and with its figure index, whatever the entry's type (a figure_number
\* of 0, which is no 1-based index, set aside).
C17_EveryEntryLabelledWithTypeAndIndex ==
  VisualizationsRendered
    => /\ Len(vizBlocks) = Len(TheVisualizations)
       /\ \A i \in 1..Len(TheVisualizations) :
            /\ i <= Len(vizBlocks)
            /\ vizBlocks[i].type = TheVisualizations[i].type
            /\ TheVisualizations[i].figure_number # <<0>>
                 => FigureIndex(TheVisualizations[i], i)
                      \in ShownIndexes(vizBlocks[i])


\* ------------------------------------------------------------ page claims
\* The requests the step issues.
Issued == {r \in ReqIds : req[r] # "pending" /\ req'[r] = "pending"}

\* C21: a request is issued only by a step of handleSubmit that the user
\* caused, one request per such step: no step in which a request fails, is
\* answered with an error status or is cancelled, and no other step, issues
\* one.
C21_RequestsOnlyFromSubmit ==
  [][Issued # {} => (lastEvent' = "requested" /\ Cardinality(Issued) = 1)]_vars

\* A cancelled request has run to its end and nothing is in flight.
C21_Witness ==
  lastEvent = "aborted" /\ Outstanding = {} /\ ~isLoading

\* The step stores the response of the request the latest submission
\* issued.
StoresLatestResponse ==
  /\ lastEvent' \in {"response", "http_error"}
  /\ \E r \in ReqIds \ stale : req[r] = "pending" /\ req'[r] = "free"

\* C22: apiResponse changes only when a submission starts, which clears it,
\* and when the response of that submission arrives; editing, switching the
\* mode, saving and cancelling leave it as it is.  (A fresh mount of the
\* page starts without a response.)
C22_ResponseHeldUntilNextSubmission ==
  [][apiResponse' # apiResponse
       => \/ /\ lastEvent' \in {"requested", "empty", "not_configured", "mount"}
             /\ apiResponse' = NULL
          \/ StoresLatestResponse]_vars

\* C23: changing the execution mode saves the code: after every
\* handleModeChange the code item of localStorage is the code in the
\* editor.
C23_ModeChangeSavesCode ==
  [][lastEvent' = "mode_change" => localStorage'.code = userCode']_vars

\* C24: while a request that was not cancelled is in flight, isLoading is
\* true and abortController is that request's controller.
C24_InFlightIsLoadingWithItsController ==
  \A r \in InFlight : isLoading /\ abortController = r

\* C25: while isLoading is true, apiResponse is null.
C25_NoResponseWhileLoading ==
  isLoading => apiResponse = NULL

\* A request is in flight, the spinner is on, and no response is held.
C25_Witness ==
  isLoading /\ InFlight # {} /\ apiResponse = NULL /\ lastEvent = "requested"

\* C26: a submission made while idle with empty or whitespace-only code
\* issues no request, leaves isLoading false and sets apiResponse to null.
C26_BlankSubmissionClearsAndSendsNothing ==
  [][(Idle /\ Trim(userCode) = <<>> /\ lastEvent' \in SubmitEvents)
       => /\ lastEvent' = "empty"
          /\ req' = req
          /\ ~isLoading'
          /\ apiResponse' = NULL]_vars

\* A blank submission has been made and the output area is cleared.
C26_Witness ==
  /\ lastEvent = "empty" /\ userCode = <<SP>>
  /\ apiResponse = NULL /\ ~isLoading /\ InFlight = {}

\* The default snippet of a mode.
DefaultOf(mode) ==
  IF mode = "script" THEN defaultScriptCode ELSE defaultFunctionCode

\* C27: while hasUserEdited is false, the editor holds the default snippet
\* of the current execution mode, in every reachable state, the state after
\* the load from localStorage on mount included.
C27_UneditedShowsDefaultOfMode ==
  ~hasUserEdited => userCode = DefaultOf(executionMode)

\* C28: once hasUserEdited is true it stays true for as long as the page is
\* mounted, and a mode change made then changes executionMode only.
C28_EditedCodeSurvivesModeChanges ==
  [][(hasUserEdited /\ lastEvent' # "mount")
       => /\ hasUserEdited'
          /\ lastEvent' = "mode_change"
               => UNCHANGED <<userCode, viewVars, req, localStorage>>]_vars

\* The mode was changed with edited code in the editor, which is still
\* there.
C28_Witness ==
  /\ lastEvent = "mode_change" /\ hasUserEdited
  /\ userCode = <<X>> /\ executionMode = "script"

\* C29: a fresh mount of the page restores what saveCode stored: userCode
\* is the saved code, the empty text included, and executionMode the saved
\* mode.
C29_SaveThenMountRestores ==
  [][(lastEvent' = "mount" /\ localStorage.code # NoItem)
       => /\ userCode' = localStorage.code
          /\ executionMode' = localStorage.mode]_vars

\* C30: Ctrl+Enter never cancels a request, and while isLoading is true it
\* changes nothing: no request is cancelled and none is issued.
C30_CtrlEnterOnlyStartsARun ==
  [][handleKeyDown("Ctrl+Enter")
       => /\ lastEvent' # "cancel"
          /\ isLoading
               => UNCHANGED <<editorVars, viewVars, req, localStorage>>]_vars

\* Ctrl+Enter was pressed while a request was in flight, which still is.
C30_Witness ==
  lastEvent = "key_ignored" /\ isLoading /\ InFlight # {}

=============================================================================
